---- MODULE Spec2Model ----
(***************************************************************************)
(* met_visualization_project.py: the one-shot load -> clean -> aggregate   *)
(* pass over MetObjects.csv, up to the tables handed to the charts.        *)
(*                                                                         *)
(* A Python string is a sequence of one-character strings, so that split,  *)
(* substring tests and the regular-expression search are computed on the   *)
(* characters.  A cell of an object column is Str(s) or NaN (a missing     *)
(* value); a cell of a numeric column is Num(n) or NumNaN.                 *)
(***************************************************************************)
EXTENDS Integers, Sequences, FiniteSets

VARIABLES
    pc,                   \* position of the script / of the function call
    csv,                  \* the records of MetObjects.csv (the input)
    df,                   \* the data frame
    dept_info,            \* Department -> Total Objects
    filtered_values_dept, \* Department -> Total Objects in 1923
    numbers_year,         \* <<Department, Year Acquired>> -> Number of Objects
    numbers_decade,       \* <<Department, Decade Acquired>> -> Number of Objects
    highlight_values,     \* the highlighted rows
    problem_locations,    \* the locations that failed the reference lookup
    improved_locations,   \* one cleaned location per highlighted row
    highlight_numbers,    \* Country of Origin -> Highlights
    entry,                \* argument of clean_up_location_problems
    cleaned_location,     \* its result
    year_entry,           \* an AccessionYear cell
    cleaned_year          \* its Cleaned Accession Year

vars == <<pc, csv, df, dept_info, filtered_values_dept, numbers_year,
          numbers_decade, highlight_values, problem_locations,
          improved_locations, highlight_numbers, entry, cleaned_location,
          year_entry, cleaned_year>>

----------------------------------------------------------------------------
(* Bounds *)

MaxRows == 2
MaxPieces == 3
MaxYearLen == 7

----------------------------------------------------------------------------
(* Values *)

Str(s) == [kind |-> "str", val |-> s]
NaN == [kind |-> "nan", val |-> <<>>]
IndexError == [kind |-> "IndexError", val |-> <<>>]
Num(n) == [kind |-> "num", val |-> n]
NumNaN == [kind |-> "nan", val |-> 0]

nan == <<"n", "a", "n">>

\* str(x): a string is itself, a missing value prints as "nan"
PyStr(cell) == IF cell.kind = "nan" THEN nan ELSE cell.val

Whitespace == {" "}

RECURSIVE SplitFrom(_, _, _, _)
SplitFrom(s, i, cur, acc) ==
    IF i > Len(s)
    THEN IF cur = <<>> THEN acc ELSE Append(acc, cur)
    ELSE IF s[i] \in Whitespace
         THEN SplitFrom(s, i + 1, <<>>,
                        IF cur = <<>> THEN acc ELSE Append(acc, cur))
         ELSE SplitFrom(s, i + 1, Append(cur, s[i]), acc)

\* s.split(): the maximal runs of non-whitespace characters
split(s) == SplitFrom(s, 1, <<>>, <<>>)

RECURSIVE SplitSepFrom(_, _, _, _, _)
SplitSepFrom(s, sep, i, cur, acc) ==
    IF i > Len(s)
    THEN Append(acc, cur)
    ELSE IF s[i] = sep
         THEN SplitSepFrom(s, sep, i + 1, <<>>, Append(acc, cur))
         ELSE SplitSepFrom(s, sep, i + 1, Append(cur, s[i]), acc)

\* s.split(sep) for a one-character separator: empty parts are kept
split_sep(s, sep) == SplitSepFrom(s, sep, 1, <<>>, <<>>)

\* set(list)
Range(q) == {q[i] : i \in 1..Len(q)}

\* sub in s, for strings
Contains(s, sub) ==
    \E i \in 1..(Len(s) - Len(sub) + 1) : SubSeq(s, i, i + Len(sub) - 1) = sub

----------------------------------------------------------------------------
(* clean_up_location_problems *)

England == <<"E", "n", "g", "l", "a", "n", "d">>
UnitedKingdom == <<"U", "n", "i", "t", "e", "d", " ", "K", "i", "n", "g", "d", "o", "m">>
FrenchPolynesia == <<"F", "r", "e", "n", "c", "h", " ", "P", "o", "l", "y", "n", "e", "s", "i", "a">>
Tahiti == <<"T", "a", "h", "i", "t", "i">>
Mangareva == <<"M", "a", "n", "g", "a", "r", "e", "v", "a">>
DemocraticRepublicOfTheCongo == <<"D", "e", "m", "o", "c", "r", "a", "t", "i", "c", " ", "R", "e", "p", "u", "b", "l", "i", "c", " ", "o", "f", " ", "t", "h", "e", " ", "C", "o", "n", "g", "o">>
CongoTheDemocraticRepublicOfThe == <<"C", "o", "n", "g", "o", " ", "(", "t", "h", "e", " ", "D", "e", "m", "o", "c", "r", "a", "t", "i", "c", " ", "R", "e", "p", "u", "b", "l", "i", "c", " ", "o", "f", " ", "t", "h", "e", ")">>
Tibet == <<"T", "i", "b", "e", "t">>
China == <<"C", "h", "i", "n", "a">>
IranPersia == <<"I", "r", "a", "n", " ", "(", "P", "e", "r", "s", "i", "a", ")">>
Iran == <<"I", "r", "a", "n">>
NewSpainMexico == <<"N", "e", "w", " ", "S", "p", "a", "i", "n", " ", "(", "M", "e", "x", "i", "c", "o", ")">>
Mexico == <<"M", "e", "x", "i", "c", "o">>
Southern == <<"S", "o", "u", "t", "h", "e", "r", "n">>
South == <<"S", "o", "u", "t", "h">>
Central == <<"C", "e", "n", "t", "r", "a", "l">>
presentDay == <<"p", "r", "e", "s", "e", "n", "t", "-", "d", "a", "y">>
formerly == <<"f", "o", "r", "m", "e", "r", "l", "y">>

discards ==
    { <<"o", "r">>, <<"a", "n", "d">>, <<"(", "?", ")">>,
      <<"p", "r", "o", "b", "a", "b", "l", "y">> }

directions ==
    { <<"N", "o", "r", "t", "h", "e", "r", "n">>,
      <<"W", "e", "s", "t", "e", "r", "n">>,
      <<"S", "o", "t", "h", "e", "r", "n">>,
      Southern, South, Central,
      <<"L", "o", "w", "e", "r">> }

islands == {Tahiti, Mangareva}

outliers ==
    [k \in {DemocraticRepublicOfTheCongo, Tibet, IranPersia, NewSpainMexico} |->
        CASE k = DemocraticRepublicOfTheCongo -> CongoTheDemocraticRepublicOfThe
          [] k = Tibet -> China
          [] k = IranPersia -> Iran
          [] k = NewSpainMexico -> Mexico]

\* list[i], 0-based as in the source; IndexError past the end
Item(list, i) == IF i + 1 <= Len(list) THEN Str(list[i + 1]) ELSE IndexError

\* variant: the direction test is made before the discard test
clean_up_location_problems_directions_first(e) ==
    LET s == PyStr(e) IN
    IF Contains(s, <<"|">>)
    THEN LET parts == split_sep(s, "|") IN
         IF Cardinality(Range(parts)) = 1 THEN Str(parts[1]) ELSE NaN
    ELSE IF Range(split(s)) \cap directions # {} THEN Item(split(s), 1)
    ELSE IF Range(split(s)) \cap discards # {} THEN NaN
    ELSE IF s = England THEN Str(UnitedKingdom)
    ELSE IF presentDay \in Range(split(s)) THEN Item(split(s), 1)
    ELSE IF Contains(s, formerly) THEN Item(split(s), 0)
    ELSE IF s \in islands THEN Str(FrenchPolynesia)
    ELSE IF s \in DOMAIN outliers THEN Str(outliers[s])
    ELSE NaN

\* variant: the '|' test is the last of the chain instead of the first
clean_up_location_problems_split_last(e) ==
    LET s == PyStr(e) IN
    IF Range(split(s)) \cap discards # {} THEN NaN
    ELSE IF Range(split(s)) \cap directions # {} THEN Item(split(s), 1)
    ELSE IF s = England THEN Str(UnitedKingdom)
    ELSE IF presentDay \in Range(split(s)) THEN Item(split(s), 1)
    ELSE IF Contains(s, formerly) THEN Item(split(s), 0)
    ELSE IF s \in islands THEN Str(FrenchPolynesia)
    ELSE IF s \in DOMAIN outliers THEN Str(outliers[s])
    ELSE IF Contains(s, <<"|">>)
    THEN LET parts == split_sep(s, "|") IN
         IF Cardinality(Range(parts)) = 1 THEN Str(parts[1]) ELSE NaN
    ELSE NaN

\* variant: the last branch keeps the entry instead of discarding it
clean_up_location_problems_keep_unknown(e) ==
    LET s == PyStr(e) IN
    IF Contains(s, <<"|">>)
    THEN LET parts == split_sep(s, "|") IN
         IF Cardinality(Range(parts)) = 1 THEN Str(parts[1]) ELSE NaN
    ELSE IF Range(split(s)) \cap discards # {} THEN NaN
    ELSE IF Range(split(s)) \cap directions # {} THEN Item(split(s), 1)
    ELSE IF s = England THEN Str(UnitedKingdom)
    ELSE IF presentDay \in Range(split(s)) THEN Item(split(s), 1)
    ELSE IF Contains(s, formerly) THEN Item(split(s), 0)
    ELSE IF s \in islands THEN Str(FrenchPolynesia)
    ELSE IF s \in DOMAIN outliers THEN Str(outliers[s])
    ELSE Str(s)

clean_up_location_problems(e) ==
    LET s == PyStr(e) IN
    IF Contains(s, <<"|">>)
    THEN LET parts == split_sep(s, "|") IN
         IF Cardinality(Range(parts)) = 1 THEN Str(parts[1]) ELSE NaN
    ELSE IF Range(split(s)) \cap discards # {} THEN NaN
    ELSE IF Range(split(s)) \cap directions # {} THEN Item(split(s), 1)
    ELSE IF s = England THEN Str(UnitedKingdom)
    ELSE IF presentDay \in Range(split(s)) THEN Item(split(s), 1)
    ELSE IF Contains(s, formerly) THEN Item(split(s), 0)
    ELSE IF s \in islands THEN Str(FrenchPolynesia)
    ELSE IF s \in DOMAIN outliers THEN Str(outliers[s])
    ELSE NaN

France == <<"F", "r", "a", "n", "c", "e">>
NewGuinea == <<"N", "e", "w", " ", "G", "u", "i", "n", "e", "a">>
parenFormerly == <<"(", "f", "o", "r", "m", "e", "r", "l", "y">>

\* Location texts as the collection writes them: pieces joined by a blank
\* or by the multi-value separator, and the keys of the synonym table.
Pieces ==
    { <<>>, England, France, Tibet, Southern, South, <<"o", "r">>,
      presentDay, parenFormerly, NewGuinea }

Separators == {" ", "|"}

TableKeys ==
    {England, Tahiti, Mangareva, DemocraticRepublicOfTheCongo, Tibet,
     IranPersia, NewSpainMexico}

RECURSIVE Joined(_)
Joined(n) ==
    IF n <= 1
    THEN Pieces
    ELSE Joined(n - 1) \cup
         {e \o <<sep>> \o p : e \in Joined(n - 1), sep \in Separators, p \in Pieces}

Entries == Joined(MaxPieces) \cup TableKeys

NoTable == <<>>

\* the variables the script owns, before it runs
ScriptIdle ==
    /\ csv = <<>>
    /\ df = <<>>
    /\ dept_info = NoTable
    /\ filtered_values_dept = NoTable
    /\ numbers_year = NoTable
    /\ numbers_decade = NoTable
    /\ highlight_values = <<>>
    /\ problem_locations = {}
    /\ improved_locations = <<>>
    /\ highlight_numbers = NoTable

ScriptVars ==
    <<csv, df, dept_info, filtered_values_dept, numbers_year, numbers_decade,
      highlight_values, problem_locations, improved_locations,
      highlight_numbers>>

\* A call of clean_up_location_problems on one entry.
InitCleanUp ==
    /\ pc = "call"
    /\ entry \in {Str(s) : s \in Entries}
    /\ cleaned_location = NaN
    /\ year_entry = NaN
    /\ cleaned_year = NumNaN
    /\ ScriptIdle

CleanUp ==
    /\ pc = "call"
    /\ cleaned_location' = clean_up_location_problems(entry)
    /\ pc' = IF cleaned_location'.kind = "IndexError" THEN "raised" ELSE "return"
    /\ UNCHANGED <<entry, year_entry, cleaned_year, ScriptVars>>

NextCleanUp == CleanUp

SpecCleanUp == InitCleanUp /\ [][NextCleanUp]_vars

----------------------------------------------------------------------------
(* Cleaned Accession Year *)

Digits == {"0", "1", "2", "3", "4", "5", "6", "7", "8", "9"}

DigitValue ==
    [c \in Digits |->
        CASE c = "0" -> 0 [] c = "1" -> 1 [] c = "2" -> 2 [] c = "3" -> 3
          [] c = "4" -> 4 [] c = "5" -> 5 [] c = "6" -> 6 [] c = "7" -> 7
          [] c = "8" -> 8 [] c = "9" -> 9]

\* [0-9]{4} matches at position i of s
MatchesAt(s, i) == i + 3 <= Len(s) /\ \A k \in 0..3 : s[i + k] \in Digits

RECURSIVE SearchFrom(_, _)
SearchFrom(s, i) ==
    IF i + 3 > Len(s) THEN <<>>
    ELSE IF MatchesAt(s, i) THEN SubSeq(s, i, i + 3)
    ELSE SearchFrom(s, i + 1)

\* variant: pattern.match, which looks at the start of the text only
pattern_match(s) == IF MatchesAt(s, 1) THEN SubSeq(s, 1, 4) ELSE <<>>

\* pattern.search(entry), and what the loop appends: result[0], or "" when
\* there is no match (result is None and result[0] raises)
pattern_search(s) == SearchFrom(s, 1)

RECURSIVE DecimalValue(_)
DecimalValue(t) ==
    IF t = <<>> THEN 0
    ELSE 10 * DecimalValue(SubSeq(t, 1, Len(t) - 1)) + DigitValue[t[Len(t)]]

\* pd.to_numeric(text, errors='coerce')
to_numeric(t) ==
    IF t # <<>> /\ \A i \in 1..Len(t) : t[i] \in Digits
    THEN Num(DecimalValue(t))
    ELSE NumNaN

cleaned_accession_year(cell) == to_numeric(pattern_search(PyStr(cell)))

YearAlphabet == {"0", "1", "9", "-"}

YearTexts == UNION {[1..n -> YearAlphabet] : n \in 0..MaxYearLen}

\* The year loop on one AccessionYear cell.
InitYear ==
    /\ pc = "year"
    /\ year_entry \in {NaN} \cup {Str(s) : s \in YearTexts}
    /\ cleaned_year = NumNaN
    /\ entry = NaN
    /\ cleaned_location = NaN
    /\ ScriptIdle

CleanYear ==
    /\ pc = "year"
    /\ cleaned_year' = cleaned_accession_year(year_entry)
    /\ pc' = "year_done"
    /\ UNCHANGED <<year_entry, entry, cleaned_location, ScriptVars>>

NextYear == CleanYear

SpecYear == InitYear /\ [][NextYear]_vars

\* C3: the Cleaned Accession Year is the number written by the first four
\* consecutive digits of the AccessionYear text, and it is NaN exactly when
\* the text is missing or holds no four consecutive digits.
C3_CleanedAccessionYear ==
    pc = "year_done" =>
        LET s == year_entry.val
            starts == IF year_entry.kind = "nan" THEN {}
                      ELSE {i \in 1..Len(s) :
                              /\ i + 3 <= Len(s)
                              /\ \A k \in i..(i + 3) : s[k] \in Digits}
        IN IF starts = {}
           THEN cleaned_year = NumNaN
           ELSE LET i == CHOOSE m \in starts : \A n \in starts : m <= n IN
                /\ cleaned_year.kind = "num"
                /\ cleaned_year.val \in 0..9999
                /\ cleaned_year.val =
                       1000 * DigitValue[s[i]] + 100 * DigitValue[s[i + 1]]
                       + 10 * DigitValue[s[i + 2]] + DigitValue[s[i + 3]]

\* "1-19901": the first four consecutive digits are not at the start
C3_Witness ==
    /\ pc = "year_done"
    /\ year_entry = Str(<<"1", "-", "1", "9", "9", "0", "1">>)
    /\ cleaned_year = Num(1990)

----------------------------------------------------------------------------
(* The script *)

TheLibraries == <<"T", "h", "e", " ", "L", "i", "b", "r", "a", "r", "i", "e", "s">>
RobertLehmanCollection == <<"R", "o", "b", "e", "r", "t", " ", "L", "e", "h", "m", "a", "n", " ", "C", "o", "l", "l", "e", "c", "t", "i", "o", "n">>
DrawingsAndPrints == <<"D", "r", "a", "w", "i", "n", "g", "s", " ", "a", "n", "d", " ", "P", "r", "i", "n", "t", "s">>
TrueText == <<"T", "r", "u", "e">>
FalseText == <<"F", "a", "l", "s", "e">>
French == <<"F", "r", "e", "n", "c", "h">>
Text1923 == <<"1", "9", "2", "3">>
Text1969 == <<"1", "9", "6", "9", "-", "0", "5">>

\* Records of the file.  Acquisition records vary the year and the
\* department; highlight records vary the culture, the country, the highlight
\* flag and whether the department is The Libraries.
AcquisitionRecords ==
    [AccessionYear : {NaN, Str(Text1923), Str(Text1969)},
     Department : {Str(TheLibraries), Str(RobertLehmanCollection), Str(DrawingsAndPrints)},
     Culture : {NaN},
     Country : {NaN},
     IsHighlight : {Str(FalseText)}]

HighlightRecords ==
    [AccessionYear : {NaN},
     Department : {Str(TheLibraries), Str(DrawingsAndPrints)},
     Culture : {NaN, Str(French)},
     Country : {NaN, Str(France), Str(England), Str(Southern)},
     IsHighlight : {Str(TrueText), Str(FalseText)}]

Records == AcquisitionRecords \cup HighlightRecords

CsvFiles == UNION {[1..n -> Records] : n \in 0..MaxRows}

\* Series.value_counts(): each value that occurs, with its number of rows
value_counts(values) ==
    [v \in Range(values) |-> Cardinality({i \in 1..Len(values) : values[i] = v})]

\* variant: the frame is kept whole
drop_libraries_keep(frame) == frame

\* df.drop(df[df['Department'] == "The Libraries"].index)
drop_libraries(frame) ==
    LET Keep(row) == row.Department # Str(TheLibraries) IN
    SelectSeq(frame, Keep)

\* pd.read_csv(..., dtype=str), Department as str, The Libraries dropped
read_csv(file) ==
    drop_libraries(
        [i \in 1..Len(file) |->
            [file[i] EXCEPT !.Department = Str(PyStr(file[i].Department))]])

clean_country_info_column(row) ==
    LET Country == PyStr(row.Country)
        Culture == PyStr(row.Culture)
    IN IF Country = <<>> /\ Culture = <<>> THEN NaN
       ELSE IF Country = <<>> THEN Str(Culture)
       ELSE Str(Country)

\* the Cleaned Accession Year and Location columns
clean_columns(frame) ==
    [i \in 1..Len(frame) |->
        [AccessionYear |-> frame[i].AccessionYear,
         Department |-> frame[i].Department,
         Culture |-> frame[i].Culture,
         Country |-> frame[i].Country,
         IsHighlight |-> frame[i].IsHighlight,
         CleanedAccessionYear |-> cleaned_accession_year(frame[i].AccessionYear),
         Location |-> clean_country_info_column(frame[i])]]

\* df['Department']
departments(frame) == [i \in 1..Len(frame) |-> frame[i].Department.val]

\* df.loc[df['Cleaned Accession Year'] <= 1923]: NaN compares false
filtered_values(frame) ==
    LET AsOf1923(row) == /\ row.CleanedAccessionYear.kind = "num"
                         /\ row.CleanedAccessionYear.val <= 1923
    IN SelectSeq(frame, AsOf1923)

\* groupby('Department')[[column]].value_counts(): rows whose value is NaN
\* are not counted
grouped_counts(groups, values) ==
    LET known == {i \in 1..Len(values) : values[i].kind = "num"}
        keys == {<<groups[i], values[i].val>> : i \in known}
    IN [k \in keys |->
           Cardinality({i \in known : <<groups[i], values[i].val>> = k})]

\* numbers_df.drop(numbers_df[numbers_df['Department'] == "Robert Lehman Collection"].index)
drop_lehman(table) ==
    [k \in {q \in DOMAIN table : q[1] # RobertLehmanCollection} |-> table[k]]

\* acquisition_df['Cleaned Accession Year']
years(frame) == [i \in 1..Len(frame) |-> frame[i].CleanedAccessionYear]

\* (year // 10) * 10, on the rows that dropna keeps
decade(year) ==
    IF year.kind = "num" THEN Num((year.val \div 10) * 10) ELSE NumNaN

decades(frame) == [i \in 1..Len(frame) |-> decade(frame[i].CleanedAccessionYear)]

\* the names the import statements bind
BoundNames == {"Dash", "dcc", "html", "get_asset_url", "px", "pd", "np", "re"}

\* the country-name reference that search_fuzzy consults
CountryNames == {France, UnitedKingdom, China, Iran, Mexico, FrenchPolynesia}

\* try: pycountry.countries.search_fuzzy(country) ... except: return False.
\* The name pycountry is looked up when the call runs; an unbound name raises
\* NameError, which the bare except turns into False.
check_against_iso(country) ==
    IF "pycountry" \in BoundNames THEN country \in CountryNames ELSE FALSE

\* variant: every row is selected
select_highlights_all(frame) == frame

\* df.loc[df['Is Highlight'] == "True"], Is Highlight as str
select_highlights(frame) ==
    LET Highlighted(row) == PyStr(row.IsHighlight) = TrueText IN
    SelectSeq(frame, Highlighted)

\* the body of the improved_locations loop for one Location
improved_location(location, problems) ==
    IF PyStr(location) \in problems
    THEN clean_up_location_problems(Str(PyStr(location)))
    ELSE Str(PyStr(location))

\* highlight_values["Improved Location"] = improved_locations
with_improved(frame, improved) ==
    [i \in 1..Len(frame) |->
        [f \in DOMAIN frame[i] \cup {"ImprovedLocation"} |->
            IF f = "ImprovedLocation" THEN improved[i] ELSE frame[i][f]]]

\* highlight_values.dropna(subset="Improved Location")
dropna(frame) ==
    LET Known(row) == row.ImprovedLocation.kind # "nan" IN
    SelectSeq(frame, Known)

Init ==
    /\ pc = "read_csv"
    /\ csv \in CsvFiles
    /\ df = <<>>
    /\ dept_info = NoTable
    /\ filtered_values_dept = NoTable
    /\ numbers_year = NoTable
    /\ numbers_decade = NoTable
    /\ highlight_values = <<>>
    /\ problem_locations = {}
    /\ improved_locations = <<>>
    /\ highlight_numbers = NoTable
    /\ entry = NaN
    /\ cleaned_location = NaN
    /\ year_entry = NaN
    /\ cleaned_year = NumNaN

CallVars == <<entry, cleaned_location, year_entry, cleaned_year>>

\* lines 20-37
ReadCsv ==
    /\ pc = "read_csv"
    /\ df' = read_csv(csv)
    /\ pc' = "clean"
    /\ UNCHANGED <<csv, dept_info, filtered_values_dept, numbers_year,
                   numbers_decade, highlight_values, problem_locations,
                   improved_locations, highlight_numbers, CallVars>>

\* lines 41-71
CleanColumns ==
    /\ pc = "clean"
    /\ df' = clean_columns(df)
    /\ pc' = "totals"
    /\ UNCHANGED <<csv, dept_info, filtered_values_dept, numbers_year,
                   numbers_decade, highlight_values, problem_locations,
                   improved_locations, highlight_numbers, CallVars>>

\* lines 74-91
DepartmentTotals ==
    /\ pc = "totals"
    /\ dept_info' = value_counts(departments(df))
    /\ filtered_values_dept' = value_counts(departments(filtered_values(df)))
    /\ pc' = "acquisitions"
    /\ UNCHANGED <<csv, df, numbers_year, numbers_decade, highlight_values,
                   problem_locations, improved_locations, highlight_numbers,
                   CallVars>>

\* lines 106-162
AcquisitionTables ==
    /\ pc = "acquisitions"
    /\ numbers_year' = drop_lehman(grouped_counts(departments(df), years(df)))
    /\ numbers_decade' = drop_lehman(grouped_counts(departments(df), decades(df)))
    /\ pc' = "highlights"
    /\ UNCHANGED <<csv, df, dept_info, filtered_values_dept, highlight_values,
                   problem_locations, improved_locations, highlight_numbers,
                   CallVars>>

\* lines 189-256: the loop stops at the first entry on which
\* clean_up_location_problems raises, and the script with it
HighlightLocations ==
    /\ pc = "highlights"
    /\ LET selected == select_highlights(df)
           problems == {PyStr(selected[i].Location) : i \in
                           {j \in 1..Len(selected) :
                               ~check_against_iso(PyStr(selected[j].Location))}}
           cleaned == [i \in 1..Len(selected) |->
                          improved_location(selected[i].Location, problems)]
           raising == {i \in 1..Len(selected) : cleaned[i].kind = "IndexError"}
       IN /\ highlight_values' = selected
          /\ problem_locations' = problems
          /\ IF raising = {}
             THEN /\ improved_locations' = cleaned
                  /\ pc' = "count"
             ELSE LET first == CHOOSE m \in raising : \A n \in raising : m <= n
                  IN /\ improved_locations' = SubSeq(cleaned, 1, first - 1)
                     /\ pc' = "IndexError"
    /\ UNCHANGED <<csv, df, dept_info, filtered_values_dept, numbers_year,
                   numbers_decade, highlight_numbers, CallVars>>

\* lines 259-265
HighlightNumbers ==
    /\ pc = "count"
    /\ LET kept == dropna(with_improved(highlight_values, improved_locations))
       IN /\ highlight_values' = kept
          /\ highlight_numbers' =
                 value_counts([i \in 1..Len(kept) |-> kept[i].ImprovedLocation.val])
    /\ pc' = "done"
    /\ UNCHANGED <<csv, df, dept_info, filtered_values_dept, numbers_year,
                   numbers_decade, problem_locations, improved_locations,
                   CallVars>>

Next ==
    \/ ReadCsv
    \/ CleanColumns
    \/ DepartmentTotals
    \/ AcquisitionTables
    \/ HighlightLocations
    \/ HighlightNumbers

Spec == Init /\ [][Next]_vars

----------------------------------------------------------------------------
(* Properties of clean_up_location_problems (SpecCleanUp) *)

Returned == pc \in {"return", "raised"}
EntryText == PyStr(entry)
EntryTokens == split(EntryText)
HasSeparator == \E i \in 1..Len(EntryText) : EntryText[i] = "|"
HasDiscard == \E i \in 1..Len(EntryTokens) : EntryTokens[i] \in discards
HasDirection == \E i \in 1..Len(EntryTokens) : EntryTokens[i] \in directions
HasPresentDay == \E i \in 1..Len(EntryTokens) : EntryTokens[i] = presentDay
HasFormerly == Contains(EntryText, formerly)

\* C4: an entry without '|' and without a discard word that begins with a
\* directional word and goes on with a place name yields that whole place
\* name: the tokens of the result are all the tokens after the first.
C4_DirectionalPrefixStripped ==
    (/\ Returned
     /\ ~HasSeparator
     /\ ~HasDiscard
     /\ Len(EntryTokens) >= 2
     /\ EntryTokens[1] \in directions)
    => /\ cleaned_location.kind = "str"
       /\ split(cleaned_location.val) = Tail(EntryTokens)

\* C5: an entry holding '|' yields the common part when all its parts are
\* equal and NaN when two parts differ, whatever else the entry holds.
C5_MultiValueSplit ==
    (Returned /\ HasSeparator) =>
        LET parts == split_sep(EntryText, "|") IN
        IF \A i, j \in 1..Len(parts) : parts[i] = parts[j]
        THEN cleaned_location = Str(parts[1])
        ELSE cleaned_location = NaN

\* "Southern France|Tibet" holds a direction word and is discarded by the
\* multi-value rule.
C5_Witness ==
    /\ pc = "return"
    /\ entry = Str(Southern \o <<" ">> \o France \o <<"|">> \o Tibet)
    /\ cleaned_location = NaN

\* C6: an entry without '|' that has a token among the discard words yields
\* NaN.
C6_DiscardWord ==
    (Returned /\ ~HasSeparator /\ HasDiscard) => cleaned_location = NaN

\* "Southern or England" holds a discard word and a direction word.
C6_Witness ==
    /\ pc = "return"
    /\ entry = Str(Southern \o <<" ">> \o <<"o", "r">> \o <<" ">> \o England)
    /\ cleaned_location = NaN

\* the table of C7, written out
SynonymOf(s) ==
    CASE s = England -> Str(UnitedKingdom)
      [] s = Tahiti -> Str(FrenchPolynesia)
      [] s = Mangareva -> Str(FrenchPolynesia)
      [] s = DemocraticRepublicOfTheCongo -> Str(CongoTheDemocraticRepublicOfThe)
      [] s = Tibet -> Str(China)
      [] s = IranPersia -> Str(Iran)
      [] s = NewSpainMexico -> Str(Mexico)
      [] OTHER -> NaN

\* C7: an entry without '|', discard word, direction word, "present-day"
\* token and "formerly" substring yields its synonym when it is a key of the
\* table and NaN otherwise.
C7_SynonymTable ==
    (/\ Returned
     /\ ~HasSeparator
     /\ ~HasDiscard
     /\ ~HasDirection
     /\ ~HasPresentDay
     /\ ~HasFormerly)
    => cleaned_location = SynonymOf(EntryText)

C7_Witness ==
    /\ pc = "return"
    /\ entry = Str(DemocraticRepublicOfTheCongo)
    /\ cleaned_location = Str(CongoTheDemocraticRepublicOfThe)

\* C9: clean_up_location_problems returns a string or NaN for every entry;
\* it never raises.
C9_NeverRaises == Returned => cleaned_location.kind \in {"str", "nan"}

----------------------------------------------------------------------------
(* Properties of the script (Spec) *)

Cleaned == pc \notin {"read_csv", "clean"}
Aggregated == pc \in {"highlights", "count", "done", "IndexError"}

\* C1: the Location of a row is its Country when the record has one,
\* otherwise its Culture when the record has one, otherwise NaN.
C1_LocationPrecedence ==
    Cleaned =>
        \A i \in 1..Len(df) :
            df[i].Location =
                IF df[i].Country.kind = "str" THEN df[i].Country
                ELSE IF df[i].Culture.kind = "str" THEN df[i].Culture
                ELSE NaN

\* C2: a highlighted row whose Location is in the country-name reference
\* keeps it as its Improved Location and is not a problem location.
C2_ReferenceMatchKept ==
    pc \in {"count", "IndexError"} =>
        \A i \in 1..Len(improved_locations) :
            LET location == PyStr(highlight_values[i].Location) IN
            location \in CountryNames =>
                /\ improved_locations[i] = Str(location)
                /\ location \notin problem_locations

\* the records of the file that are highlighted and not of The Libraries
HighlightedRecords ==
    {i \in 1..Len(csv) :
        /\ PyStr(csv[i].IsHighlight) = TrueText
        /\ PyStr(csv[i].Department) # TheLibraries}

ImprovedOf(i) ==
    improved_location(clean_country_info_column(csv[i]), problem_locations)

CountedRecords == {i \in HighlightedRecords : ImprovedOf(i).kind # "nan"}

RECURSIVE SumOver(_, _)
SumOver(table, keys) ==
    IF keys = {} THEN 0
    ELSE LET k == CHOOSE x \in keys : TRUE
         IN table[k] + SumOver(table, keys \ {k})

\* C8: the highlights table counts exactly the highlighted records outside
\* The Libraries whose Improved Location is not NaN: each country's count is
\* the number of such records with that Improved Location, and the counts
\* add up to the number of such records.
C8_HighlightsCounted ==
    pc = "done" =>
        /\ DOMAIN highlight_numbers = {ImprovedOf(i).val : i \in CountedRecords}
        /\ \A c \in DOMAIN highlight_numbers :
               highlight_numbers[c] =
                   Cardinality({i \in CountedRecords : ImprovedOf(i).val = c})
        /\ SumOver(highlight_numbers, DOMAIN highlight_numbers) =
               Cardinality(CountedRecords)

\* two highlighted records, one counted and one dropped for its NaN
C8_Witness ==
    /\ pc = "done"
    /\ Cardinality(HighlightedRecords) = 2
    /\ Cardinality(CountedRecords) = 1
    /\ \E i \in 1..Len(improved_locations) : improved_locations[i] = NaN
    /\ DOMAIN highlight_numbers = {UnitedKingdom}

RecordsOf(department) ==
    {i \in 1..Len(csv) : PyStr(csv[i].Department) = department}

YearOf(i) == cleaned_accession_year(csv[i].AccessionYear)

AsOf1923(department) ==
    {i \in RecordsOf(department) : YearOf(i).kind = "num" /\ YearOf(i).val <= 1923}

Counts(table, key, n) ==
    IF n = 0 THEN key \notin DOMAIN table
    ELSE key \in DOMAIN table /\ table[key] = n

\* C10: no record of The Libraries is counted in any table; the records of
\* the Robert Lehman Collection are counted in the department totals and in
\* the totals as of 1923 and are absent from the per-year and per-decade tables.
C10_DepartmentExclusions ==
    Aggregated =>
        /\ TheLibraries \notin DOMAIN dept_info
        /\ TheLibraries \notin DOMAIN filtered_values_dept
        /\ \A k \in DOMAIN numbers_year \cup DOMAIN numbers_decade :
               k[1] \notin {TheLibraries, RobertLehmanCollection}
        /\ \A d \in DOMAIN dept_info : dept_info[d] = Cardinality(RecordsOf(d))
        /\ \A d \in DOMAIN filtered_values_dept :
               filtered_values_dept[d] = Cardinality(AsOf1923(d))
        /\ Counts(dept_info, RobertLehmanCollection,
                  Cardinality(RecordsOf(RobertLehmanCollection)))
        /\ Counts(filtered_values_dept, RobertLehmanCollection,
                  Cardinality(AsOf1923(RobertLehmanCollection)))
        /\ \A i \in 1..Len(highlight_values) :
               LET row == highlight_values[i] IN
               row.Department # Str(TheLibraries)

\* a record of The Libraries and one of the Robert Lehman Collection
\* accessioned in 1923
C10_Witness ==
    /\ pc = "done"
    /\ RecordsOf(TheLibraries) # {}
    /\ AsOf1923(RobertLehmanCollection) # {}
    /\ dept_info[RobertLehmanCollection] = 1
    /\ filtered_values_dept[RobertLehmanCollection] = 1
    /\ DOMAIN numbers_year = {}

====
